---- MODULE Spec2Model ----
(***************************************************************************)
(* A model of setup.py of xpra-html5: the VCS metadata store               *)
(* (get_vcs_info, record_vcs_info, load_vcs_info), the symlink resolver    *)
(* (install_symlink), the source transformer and the install pipeline      *)
(* (install_html5).                                                        *)
(*                                                                         *)
(* A Python string is a sequence of symbols.  A symbol is one character,   *)
(* or a run of characters that none of the operations of the script looks  *)
(* into ("master", "BRANCH", "/usr/share/javascript/jquery/jquery.js").    *)
(* The characters the script does look at ("=", "-", "#", "*", digits,     *)
(* white space, line terminators, the letters of let/const/for) are always *)
(* symbols of their own.                                                   *)
(***************************************************************************)
EXTENDS Integers, Sequences, FiniteSets, TLC

VARIABLES vcs, sl, tr, inst

vars == <<vcs, sl, tr, inst>>

\* The value of a component that a specification does not exercise.
Idle == [pc |-> "idle"]

----------------------------------------------------------------------------
(* Python values and the string methods the script calls.                  *)

None == [kind |-> "none", int |-> 0, str |-> <<>>]

PyInt(n) == [kind |-> "int", int |-> n, str |-> <<>>]

PyStr(s) == [kind |-> "str", int |-> 0, str |-> s]

\* Python's truth value: None, 0 and "" are false.
Truthy(v) ==
    CASE v.kind = "none" -> FALSE
      [] v.kind = "int"  -> v.int # 0
      [] OTHER           -> v.str # <<>>

\* Python's ==: an int never equals a str.
PyEq(a, b) == a.kind = b.kind /\ a.int = b.int /\ a.str = b.str

EmptyDict == [k \in {} |-> None]

DictPut(d, k, v) == [x \in (DOMAIN d) \cup {k} |-> IF x = k THEN v ELSE d[x]]

\* Python's == on two dicts: the same keys, each with an equal value.
DictEq(a, b) == DOMAIN a = DOMAIN b /\ \A k \in DOMAIN a : PyEq(a[k], b[k])

\* str.find: the 0-based index of the first occurrence of c, or -1.
Find(s, c) ==
    IF \E i \in 1..Len(s) : s[i] = c
    THEN (CHOOSE i \in 1..Len(s) : s[i] = c /\ \A j \in 1..(i-1) : s[j] # c) - 1
    ELSE -1

\* str.split(sep) for a one-symbol separator: always at least one part.
RECURSIVE Split(_, _)
Split(s, sep) ==
    LET i == Find(s, sep)
    IN  IF i = -1 THEN <<s>>
        ELSE <<SubSeq(s, 1, i)>> \o Split(SubSeq(s, i + 2, Len(s)), sep)

StartsWith(s, p) == Len(s) >= Len(p) /\ SubSeq(s, 1, Len(p)) = p

EndsWith(s, p) == Len(s) >= Len(p) /\ SubSeq(s, Len(s) - Len(p) + 1, Len(s)) = p

Digits == <<"0", "1", "2", "3", "4", "5", "6", "7", "8", "9">>

DigitVal(c) == (CHOOSE i \in 1..10 : Digits[i] = c) - 1

IsDigits(s) == s # <<>> /\ \A i \in 1..Len(s) : \E d \in 1..10 : Digits[d] = s[i]

\* int(s) for a string of decimal digits.
RECURSIVE StrToInt(_)
StrToInt(s) ==
    IF s = <<>> THEN 0
    ELSE 10 * StrToInt(SubSeq(s, 1, Len(s) - 1)) + DigitVal(s[Len(s)])

\* "%s" % n for an int n >= 0.
RECURSIVE IntToStr(_)
IntToStr(n) ==
    IF n < 10 THEN <<Digits[n + 1]>>
    ELSE IntToStr(n \div 10) \o <<Digits[(n % 10) + 1]>>

\* "%s" % v
Format(v) == IF v.kind = "int" THEN IntToStr(v.int) ELSE v.str

----------------------------------------------------------------------------
(* The VCS metadata store.                                                 *)

KeyBranch == <<"BRANCH">>

KeyRevision == <<"REVISION">>

KeyLocalModifications == <<"LOCAL_MODIFICATIONS">>

\* A command's result: its return code and the lines of its output.
Cmd(rc, lines) == [rc |-> rc, lines |-> lines]

\* The branch loop: the first command that exits 0 with output decides.
RECURSIVE BranchLoop(_, _)
BranchLoop(cmds, i) ==
    IF i > Len(cmds) THEN None
    ELSE IF cmds[i].rc = 0 /\ cmds[i].lines # <<>>
         THEN PyStr(cmds[i].lines[1])
         ELSE BranchLoop(cmds, i + 1)

\* get_output_line: None on a nonzero exit, the first line otherwise;
\* splitlines()[0] raises IndexError when the command printed nothing.
get_output_line(cmd) ==
    IF cmd.rc # 0 THEN [raised |-> FALSE, v |-> None]
    ELSE IF cmd.lines = <<>> THEN [raised |-> TRUE, v |-> None]
    ELSE [raised |-> FALSE, v |-> PyStr(cmd.lines[1])]

\* The number of status lines that count as a change.
RECURSIVE Strip(_)
Strip(s) ==
    IF s # <<>> /\ s[1] \in {" ", "\t"} THEN Strip(Tail(s))
    ELSE IF s # <<>> /\ s[Len(s)] \in {" ", "\t"} THEN Strip(SubSeq(s, 1, Len(s) - 1))
    ELSE s

IsChangeLine(line) ==
    LET sline == Strip(line)
    IN  \/ StartsWith(sline, <<"modified:", " ">>)
        \/ StartsWith(sline, <<"new file:">>)
        \/ StartsWith(sline, <<"deleted:">>)

CountChanges(status) ==
    IF status.rc = 0
    THEN Cardinality({i \in 1..Len(status.lines) : IsChangeLine(status.lines[i])})
    ELSE 0

\* The revision: rev, then info["REVISION"] = int(rev) unless int() raises.
RevisionOf(parts, branch, revlist) ==
    LET rev0 == IF Len(parts) = 3 THEN PyStr(parts[2]) ELSE PyInt(0)
        rev  == IF PyEq(branch, PyStr(<<"master">>)) THEN revlist.v ELSE rev0
    IN  IF ~Truthy(rev) THEN None
        ELSE IF rev.kind = "int" THEN rev
        ELSE IF IsDigits(rev.str) THEN PyInt(StrToInt(rev.str))
        ELSE None

\* get_vcs_info: the mapping, or raised when an exception leaves the call.
get_vcs_info(git) ==
    LET branch   == BranchLoop(git.branch, 1)
        info1    == IF Truthy(branch) THEN DictPut(EmptyDict, KeyBranch, branch)
                    ELSE EmptyDict
        describe == get_output_line(git.describe)
        master   == PyEq(branch, PyStr(<<"master">>))
        revlist  == IF master THEN get_output_line(git.revlist)
                    ELSE [raised |-> FALSE, v |-> None]
    IN  IF describe.raised \/ describe.v.kind = "none" \/ revlist.raised
        THEN [raised |-> TRUE, info |-> EmptyDict]
        ELSE LET parts   == Split(describe.v.str, "-")
                 rev     == RevisionOf(parts, branch, revlist)
                 info2   == IF rev.kind = "int" THEN DictPut(info1, KeyRevision, rev)
                            ELSE info1
                 changes == CountChanges(git.status)
                 info3   == IF changes # 0
                            THEN DictPut(info2, KeyLocalModifications, PyInt(changes))
                            ELSE info2
             IN  [raised |-> FALSE, info |-> info3]

\* The keys of a dict get_vcs_info built, in insertion order.
KeyOrder == <<KeyBranch, KeyRevision, KeyLocalModifications>>

ItemLines(info) ==
    LET line(k) == IF k \in DOMAIN info THEN <<k \o <<"=">> \o Format(info[k])>>
                   ELSE <<>>
    IN  line(KeyOrder[1]) \o line(KeyOrder[2]) \o line(KeyOrder[3])

NoFile == [exists |-> FALSE, lines |-> <<>>]

\* The file after record_vcs_info: rewritten only when info is not empty.
WriteVcsInfo(file, info) ==
    IF DOMAIN info # {} THEN [exists |-> TRUE, lines |-> ItemLines(info)]
    ELSE file

\* load_vcs_info's loop over the lines of the file.
RECURSIVE LoadLines(_, _)
LoadLines(lines, info) ==
    IF lines = <<>> THEN info
    ELSE LET line  == Head(lines)
             parts == Split(line, "=")
         IN  IF StartsWith(line, <<"#">>) THEN LoadLines(Tail(lines), info)
             ELSE IF Len(parts) = 2
                  THEN LoadLines(Tail(lines), DictPut(info, parts[1], PyStr(parts[2])))
                  ELSE LoadLines(Tail(lines), info)

load_vcs_info(file) == IF file.exists THEN LoadLines(file.lines, EmptyDict) ELSE EmptyDict

\* What the version-control commands may answer.
BranchNames == {<<"master">>, <<"dev">>, <<"a", "=", "b">>}

BranchResults ==
    {Cmd(1, <<>>), Cmd(0, <<>>), Cmd(0, <<<<>>>>)} \cup {Cmd(0, <<b>>) : b \in BranchNames}

DescribeResults ==
    { Cmd(128, <<>>), Cmd(0, <<>>),
      Cmd(0, << <<"v4.0.6", "-", "8", "5", "-", "gf253d3f9d">> >>),
      Cmd(0, << <<"v4.0.6", "-", "0", "-", "gf253d3f9d">> >>),
      Cmd(0, << <<"v4.0.6">> >>),
      Cmd(0, << <<"v4", "-", "rc", "-", "1">> >>) }

RevListResults ==
    { Cmd(128, <<>>), Cmd(0, <<>>), Cmd(0, << <<"1", "2", "0">> >>), Cmd(0, << <<>> >>) }

StatusResults ==
    { Cmd(128, <<>>),
      Cmd(0, << <<"On branch ", "master">> >>),
      Cmd(0, << <<"\t", "modified:", " ", " ", "setup.py">>,
                <<"\t", "new file:", " ", "a.js">>,
                <<"nothing ", "modified:", " ">> >>) }

PriorVcsFiles ==
    { NoFile,
      [exists |-> TRUE, lines |-> <<>>],
      [exists |-> TRUE, lines |-> << <<"BRANCH", "=", "old">>, <<"REVISION", "=", "7">> >>],
      [exists |-> TRUE, lines |-> << <<"#", "BRANCH", "=", "x">>, <<"junk">>,
                                     <<"REVISION", "=">> >>] }

\* The number of branch-detection commands answering with a branch name
\* that the explored inputs allow (the others fail or print nothing).
MaxBranchAnswers == 1

GitInputs ==
    { g \in [branch : [1..3 -> BranchResults], describe : DescribeResults,
             revlist : RevListResults, status : StatusResults] :
        Cardinality({i \in 1..3 : g.branch[i].lines \notin {<<>>, <<<<>>>>}})
            <= MaxBranchAnswers }

\* prior remembers the file as it was before record_vcs_info ran.
InitVcs ==
    /\ \E g \in GitInputs, f \in PriorVcsFiles :
          vcs = [pc |-> "start", git |-> g, file |-> f, prior |-> f,
                 info |-> EmptyDict, loaded |-> EmptyDict]
    /\ sl = Idle /\ tr = Idle /\ inst = Idle

\* record_vcs_info()
RecordVcsInfo ==
    /\ vcs.pc = "start"
    /\ LET r == get_vcs_info(vcs.git)
       IN  vcs' = IF r.raised
                  THEN [vcs EXCEPT !.pc = "raised"]
                  ELSE [vcs EXCEPT !.pc = "recorded", !.info = r.info,
                                   !.file = WriteVcsInfo(vcs.file, r.info)]
    /\ UNCHANGED <<sl, tr, inst>>

\* load_vcs_info(), after record_vcs_info() returned
LoadVcsInfo ==
    /\ vcs.pc = "recorded"
    /\ vcs' = [vcs EXCEPT !.pc = "loaded", !.loaded = load_vcs_info(vcs.file)]
    /\ UNCHANGED <<sl, tr, inst>>

NextVcs == RecordVcsInfo \/ LoadVcsInfo

SpecVcs == InitVcs /\ [][NextVcs]_vars

\* C3: record_vcs_info then load_vcs_info returns a mapping equal to the one
\* get_vcs_info produced: the same keys, each with an equal value.
C3_RoundTrip == vcs.pc = "loaded" => DictEq(vcs.loaded, vcs.info)

\* C4: a field that cannot be determined never makes the call raise; the
\* branch and the local-modification count that can be determined are
\* still in the mapping.
C4_FieldFailureNonFatal ==
    vcs.pc \in {"recorded", "loaded", "raised"} =>
        /\ vcs.pc # "raised"
        /\ Truthy(BranchLoop(vcs.git.branch, 1)) => KeyBranch \in DOMAIN vcs.info
        /\ CountChanges(vcs.git.status) # 0 => KeyLocalModifications \in DOMAIN vcs.info

----------------------------------------------------------------------------
(* The file system, as far as the script looks at it.                      *)

\* What a path of the output directory holds.  how: how a regular file
\* was written ("copy", "minify", or "old" for a file of unknown origin);
\* data: the text copied into it, when the model follows the text.
Absent == [kind |-> "absent", target |-> <<>>, how |-> "", data |-> <<>>]

RegularFile(how, data) == [kind |-> "file", target |-> <<>>, how |-> how, data |-> data]

SymLink(target) == [kind |-> "link", target |-> target, how |-> "", data |-> <<>>]

\* The system's files: listing is the order in which a directory scan
\* returns the paths that exist; dangling are the symbolic links among
\* them whose target is missing.
Range(seq) == {seq[i] : i \in 1..Len(seq)}

SysLexists(path, sys) == path \in Range(sys.listing)

SysExists(path, sys) == SysLexists(path, sys) /\ path \notin sys.dangling

\* os.path.lexists and os.path.exists (which follows a symbolic link) of a
\* path of the output directory.
NodeLexists(node) == node.kind # "absent"

NodeExists(node, sys) ==
    \/ node.kind = "file"
    \/ node.kind = "link" /\ SysExists(node.target, sys)

\* The symbols that end with "/": a directory and its separator.
DirSymbols == {"/usr/share/backgrounds/", "images/", "gnome/"}

\* glob's matching: "*" stands for any run of symbols within one directory.
RECURSIVE GlobMatch(_, _)
GlobMatch(pattern, name) ==
    IF pattern = <<>> THEN name = <<>>
    ELSE IF Head(pattern) = "*"
         THEN \/ GlobMatch(Tail(pattern), name)
              \/ name # <<>> /\ Head(name) \notin DirSymbols
                 /\ GlobMatch(pattern, Tail(name))
         ELSE name # <<>> /\ Head(name) = Head(pattern)
              /\ GlobMatch(Tail(pattern), Tail(name))

\* glob.glob: a pattern without "*" yields itself when the path is there
\* (lexists); a pattern with "*" yields the matching paths in scan order.
Glob(pattern, sys) ==
    IF Find(pattern, "*") = -1
    THEN IF SysLexists(pattern, sys) THEN <<pattern>> ELSE <<>>
    ELSE SelectSeq(sys.listing, LAMBDA path : GlobMatch(pattern, path))

----------------------------------------------------------------------------
(* The symlink resolver.                                                   *)

\* `if symlink_option.find("*"):` is taken unless find returns 0.
TreatedAsGlob(symlink_option) == Find(symlink_option, "*") # 0

\* The body of install_symlink once a candidate resolved to `target`:
\* unlink dst if os.path.exists(dst), then os.symlink, which raises when
\* dst is still there (a dangling link) or its directory is missing.
LinkTo(target, dst, parent, sys) ==
    LET cleared == IF NodeExists(dst, sys) THEN Absent ELSE dst
    IN  IF NodeLexists(cleared) \/ ~parent
        THEN [ret |-> "raised", dst |-> cleared]
        ELSE [ret |-> "True", dst |-> SymLink(target)]

\* install_symlink(symlink_options, dst), from option i on.
RECURSIVE install_symlink(_, _, _, _, _)
install_symlink(symlink_options, i, dst, parent, sys) ==
    IF i > Len(symlink_options) THEN [ret |-> "False", dst |-> dst]
    ELSE LET option  == symlink_options[i]
             matches == Glob(option, sys)
         IN  IF TreatedAsGlob(option) /\ matches = <<>>
             THEN install_symlink(symlink_options, i + 1, dst, parent, sys)
             ELSE LET target == IF TreatedAsGlob(option) THEN matches[1] ELSE option
                  IN  IF SysExists(target, sys)
                      THEN LinkTo(target, dst, parent, sys)
                      ELSE install_symlink(symlink_options, i + 1, dst, parent, sys)

\* The inputs explored for the resolver on its own.
MaxOptions == 2

MaxSysPaths == 2

SymPaths == {<<"a">>, <<"b">>, <<"a", "b">>}

SymPatterns == {<<"a">>, <<"b">>, <<"*", "b">>, <<"a", "*">>}

SeqsUpTo(S, n) == UNION {[1..k -> S] : k \in 0..n}

NoRepeat(seq) == \A i, j \in 1..Len(seq) : i # j => seq[i] # seq[j]

SysStates(paths, n) ==
    {[listing |-> l, dangling |-> d] :
        l \in {q \in SeqsUpTo(paths, n) : NoRepeat(q)}, d \in SUBSET paths}

DstStates == {Absent, RegularFile("old", <<>>)} \cup {SymLink(t) : t \in SymPaths}

InitSymlink ==
    /\ \E o \in SeqsUpTo(SymPatterns, MaxOptions), s \in SysStates(SymPaths, MaxSysPaths),
          d \in DstStates, p \in BOOLEAN :
          /\ s.dangling \subseteq Range(s.listing)
          /\ NodeLexists(d) => p
          /\ sl = [pc |-> "start", symlink_options |-> o, sys |-> s, dst0 |-> d,
                   dst |-> d, parent |-> p, ret |-> "none"]
    /\ vcs = Idle /\ tr = Idle /\ inst = Idle

\* install_symlink(symlink_options, dst)
InstallSymlink ==
    /\ sl.pc = "start"
    /\ LET r == install_symlink(sl.symlink_options, 1, sl.dst, sl.parent, sl.sys)
       IN  sl' = [sl EXCEPT !.pc = "done", !.ret = r.ret, !.dst = r.dst]
    /\ UNCHANGED <<vcs, tr, inst>>

NextSymlink == InstallSymlink

SpecSymlink == InitSymlink /\ [][NextSymlink]_vars

\* What the candidate stands for: a pattern with "*" is expanded and its
\* first match taken, any other candidate is taken literally.
Resolved(option, sys) ==
    IF Find(option, "*") # -1
    THEN IF Glob(option, sys) # <<>> THEN Glob(option, sys)[1] ELSE <<>>
    ELSE option

Resolves(option, sys) == SysExists(Resolved(option, sys), sys)

\* os.symlink cannot fail: the destination's directory is there and the
\* destination is not a dangling link.
LinkableDst(dst, parent, sys) == parent /\ (NodeLexists(dst) => NodeExists(dst, sys))

\* C5: install_symlink returns True iff a candidate resolves to an existing
\* path, and then the destination is a symbolic link to the first candidate
\* in list order that resolves; otherwise it returns False and the
\* destination is untouched.  (Stated for destinations os.symlink accepts.)
C5_FirstResolvingCandidate ==
    sl.pc = "done" /\ LinkableDst(sl.dst0, sl.parent, sl.sys) =>
        LET hits == {i \in 1..Len(sl.symlink_options) :
                        Resolves(sl.symlink_options[i], sl.sys)}
        IN  IF hits # {}
            THEN LET first == CHOOSE i \in hits : \A j \in hits : i <= j
                 IN  /\ sl.ret = "True"
                     /\ sl.dst = SymLink(Resolved(sl.symlink_options[first], sl.sys))
            ELSE sl.ret = "False" /\ sl.dst = sl.dst0

----------------------------------------------------------------------------
(* The source transformer.                                                 *)

Whitespace == {" ", "\t"}

LineBreaks == {"\n", "\r"}

\* str.splitlines(): lines end at "\n", "\r" or "\r\n"; a terminator at
\* the end of the text starts no further line.
RECURSIVE SplitLines(_)
SplitLines(s) ==
    IF s = <<>> THEN <<>>
    ELSE IF \A i \in 1..Len(s) : s[i] \notin LineBreaks THEN <<s>>
    ELSE LET i    == CHOOSE k \in 1..Len(s) :
                        s[k] \in LineBreaks /\ \A j \in 1..(k-1) : s[j] \notin LineBreaks
             skip == IF s[i] = "\r" /\ i < Len(s) /\ s[i+1] = "\n" THEN 2 ELSE 1
         IN  <<SubSeq(s, 1, i - 1)>> \o SplitLines(SubSeq(s, i + skip, Len(s)))

\* sep.join(parts)
RECURSIVE Join(_, _)
Join(parts, sep) ==
    IF parts = <<>> THEN <<>>
    ELSE IF Len(parts) = 1 THEN parts[1]
    ELSE parts[1] \o sep \o Join(Tail(parts), sep)

\* str.replace(old, new): every occurrence, left to right, not overlapping.
RECURSIVE Replace(_, _, _)
Replace(s, old, new) ==
    IF Len(s) < Len(old) THEN s
    ELSE IF SubSeq(s, 1, Len(old)) = old
         THEN new \o Replace(SubSeq(s, Len(old) + 1, Len(s)), old, new)
         ELSE <<s[1]>> \o Replace(Tail(s), old, new)

\* A regular expression of the script is a sequence of items: a literal,
\* \s* ("ws0") or \s+ ("ws1").  MatchEnd is the position after the match
\* of items at position i of line, or 0 when there is none.  No literal
\* starts with white space, so the greedy match is the only one.
Lit(word) == [item |-> "lit", word |-> word]

Ws0 == [item |-> "ws0", word |-> <<>>]

Ws1 == [item |-> "ws1", word |-> <<>>]

RECURSIVE SkipWs(_, _)
SkipWs(line, i) ==
    IF i <= Len(line) /\ line[i] \in Whitespace THEN SkipWs(line, i + 1) ELSE i

RECURSIVE MatchEnd(_, _, _)
MatchEnd(items, line, i) ==
    IF items = <<>> THEN i
    ELSE LET it == Head(items)
         IN  CASE it.item = "lit" ->
                    IF i + Len(it.word) - 1 <= Len(line)
                       /\ SubSeq(line, i, i + Len(it.word) - 1) = it.word
                    THEN MatchEnd(Tail(items), line, i + Len(it.word))
                    ELSE 0
               [] it.item = "ws0" -> MatchEnd(Tail(items), line, SkipWs(line, i))
               [] OTHER ->
                    IF SkipWs(line, i) > i
                    THEN MatchEnd(Tail(items), line, SkipWs(line, i))
                    ELSE 0

KwLet == <<"l", "e", "t">>

KwConst == <<"c", "o", "n", "s", "t">>

KwFor == <<"f", "o", "r">>

KwVar == <<"v", "a", "r">>

\* The four (regexp, replacewith) pairs, in the order of the dict.
Rewrites ==
    << [regexp |-> <<Ws0, Lit(KwFor), Ws0, Lit(<<"(">>), Ws0, Lit(KwLet), Ws1>>,
        replacewith |-> KwFor \o <<"(">> \o KwVar \o <<" ">>],
       [regexp |-> <<Ws0, Lit(KwLet), Ws1>>,
        replacewith |-> KwVar \o <<" ">>],
       [regexp |-> <<Ws0, Lit(KwFor), Ws0, Lit(<<"(">>), Ws0, Lit(KwConst), Ws1>>,
        replacewith |-> KwFor \o <<"(">> \o KwVar \o <<" ">>],
       [regexp |-> <<Ws0, Lit(KwConst), Ws1>>,
        replacewith |-> KwVar \o <<" ">>] >>

\* Sub as it would be if only the keyword were replaced: the white space
\* before the match's first literal stays in front of the replacement.
SubKeepingIndent(rw, line) ==
    LET e == MatchEnd(rw.regexp, line, 1)
    IN  IF e = 0 THEN line
        ELSE SubSeq(line, 1, SkipWs(line, 1) - 1) \o rw.replacewith
             \o SubSeq(line, e, Len(line))

\* p.sub(replacewith, line) for a pattern anchored with ^: the match at
\* the start of the line, if any, is replaced.
Sub(rw, line) ==
    LET e == MatchEnd(rw.regexp, line, 1)
    IN  IF e = 0 THEN line ELSE rw.replacewith \o SubSeq(line, e, Len(line))

\* newdata after one pass: every line of data through p.sub.
SubLines(rw, lines) == [i \in 1..Len(lines) |-> Sub(rw, lines[i])]

\* One pass of the loop over the patterns: split, substitute, join.
NewData(data, k) == SubLines(Rewrites[k], SplitLines(data))

\* data after the passes k..n of the loop.
RECURSIVE Downlevel(_, _, _)
Downlevel(data, k, n) ==
    IF k > n THEN data
    ELSE Downlevel(Join(NewData(data, k), <<"\n">>), k + 1, n)

RevisionLiteral(v) == <<"REVISION", " ", ":", " ">> \o v \o <<",">>

LocalModificationsLiteral(v) == <<"LOCAL_MODIFICATIONS", " ", ":", " ">> \o v \o <<",">>

BranchLiteral(v) == <<"BRANCH", " ", ":", " ", "\"">> \o v \o <<"\"", ",">>

DictGet(d, k) == IF k \in DOMAIN d THEN d[k] ELSE None

\* Version stamping: each literal is replaced when info has a true value;
\* new is the literal with "%s" % value in it.
StampOne(data, info, key, old, new) ==
    IF Truthy(DictGet(info, key)) THEN Replace(data, old, new) ELSE data

Stamp(data, bname, info) ==
    IF bname = <<"Utilities", ".", "js">> /\ DOMAIN info # {}
    THEN LET d1 == StampOne(data, info, KeyRevision, RevisionLiteral(<<"0">>),
                            RevisionLiteral(Format(DictGet(info, KeyRevision))))
             d2 == StampOne(d1, info, KeyLocalModifications,
                            LocalModificationsLiteral(<<"0">>),
                            LocalModificationsLiteral(
                                Format(DictGet(info, KeyLocalModifications))))
         IN  StampOne(d2, info, KeyBranch, BranchLiteral(<<"master">>),
                      BranchLiteral(Format(DictGet(info, KeyBranch))))
    ELSE data

\* data, from odata
Transform(odata, bname, info) == Downlevel(Stamp(odata, bname, info), 1, Len(Rewrites))

\* os.path.basename, and os.path.splitext(fname)[1].lstrip(".")
RECURSIVE Basename(_)
Basename(fname) ==
    IF Find(fname, "/") = -1 THEN fname
    ELSE Basename(SubSeq(fname, Find(fname, "/") + 2, Len(fname)))

RECURSIVE Ext(_)
Ext(name) ==
    LET b == Basename(name)
    IN  IF Find(Tail(b), ".") = -1 THEN <<>>
        ELSE IF Find(SubSeq(b, Find(Tail(b), ".") + 3, Len(b)), ".") = -1
             THEN SubSeq(b, Find(Tail(b), ".") + 3, Len(b))
             ELSE Ext(SubSeq(b, Find(Tail(b), ".") + 2, Len(b)))

\* `ftype=="js" or fname.endswith("index.html")`
IsRewritten(fname) == Ext(fname) = <<"js">> \/ EndsWith(fname, <<"index", ".", "html">>)

\* `minifier not in ("", None, "copy") and ftype=="js"`
IsMinified(fname, minifier) == minifier \notin {"", "None", "copy"} /\ Ext(fname) = <<"js">>

KnownMinifiers == {"uglifyjs", "yuicompressor"}

\* From `fsrc = src` to `os.unlink(fsrc)` for one asset that was not
\* symlinked.  tmp: whether src+".tmp" was written; tmpLeft: whether it
\* is still there afterwards; raised: the assert on the minifier failed.
\* data is the text after the rewrites (odata itself for other files).
BuildFrom(odata, data, rewritten, minify, minifier, minifyOk) ==
    IF minify /\ minifier \notin KnownMinifiers
    THEN [raised |-> TRUE, tmp |-> rewritten /\ data # odata,
          tmpLeft |-> rewritten /\ data # odata, data |-> data, dst |-> Absent]
    ELSE [raised |-> FALSE, tmp |-> rewritten /\ data # odata, tmpLeft |-> FALSE,
          data |-> data,
          dst |-> RegularFile(IF minify /\ minifyOk THEN "minify" ELSE "copy",
                              IF rewritten THEN data ELSE odata)]

build_asset(fname, odata, info, minifier, minifyOk) ==
    BuildFrom(odata,
              IF IsRewritten(fname) THEN Transform(odata, Basename(fname), info) ELSE odata,
              IsRewritten(fname), IsMinified(fname, minifier), minifier, minifyOk)

\* The texts explored: up to MaxChunks chunks, one after the other.
MaxChunks == 4

TextChunks ==
    { KwLet, KwConst, KwFor \o <<"(">>, KwFor \o <<" ", "(", " ">>,
      <<" ">>, <<"x">>, <<"\n">>, <<"\r", "\n">> }

RECURSIVE Flatten(_)
Flatten(chunks) == IF chunks = <<>> THEN <<>> ELSE Head(chunks) \o Flatten(Tail(chunks))

Texts == {Flatten(c) : c \in SeqsUpTo(TextChunks, MaxChunks)}

\* The texts explored for the stamped file, and the mappings loaded.
StampTexts ==
    { RevisionLiteral(<<"0">>) \o <<"\n">> \o BranchLiteral(<<"master">>),
      LocalModificationsLiteral(<<"0">>) \o <<"\n">> \o KwLet \o <<" ", "x">>,
      RevisionLiteral(<<"0">>),
      <<"x">>, <<"x", "\n">> }

StampInfos ==
    { EmptyDict,
      DictPut(EmptyDict, KeyRevision, PyStr(<<"8", "5">>)),
      DictPut(EmptyDict, KeyRevision, PyStr(<<"0">>)),
      DictPut(DictPut(EmptyDict, KeyBranch, PyStr(<<"dev">>)),
              KeyLocalModifications, PyStr(<<"2">>)),
      DictPut(EmptyDict, KeyBranch, PyStr(<<"master">>)) }

ClientJs == <<"js", "/", "Client", ".", "js">>

UtilitiesJs == <<"js", "/", "Utilities", ".", "js">>

IndexHtml == <<"index", ".", "html">>

\* The generated texts go through the copy of a script; the stamped file,
\* the markup file and the minifier see the few texts of StampTexts.
InitTransform ==
    /\ \E f \in {ClientJs, UtilitiesJs, IndexHtml},
          m \in {"copy", "uglifyjs"}, ok \in BOOLEAN :
          \E o \in (IF f = ClientJs /\ m = "copy" THEN Texts ELSE StampTexts),
             i \in (IF f = UtilitiesJs THEN StampInfos ELSE {EmptyDict}) :
             /\ (f = IndexHtml \/ m = "copy") => ok
             /\ tr = [pc |-> "start", fname |-> f, odata |-> o, info |-> i,
                      minifier |-> m, minifyOk |-> ok, newdata |-> <<>>,
                      data |-> <<>>, tmp |-> FALSE, tmpLeft |-> FALSE,
                      fsrc |-> "", dst |-> Absent]
    /\ vcs = Idle /\ sl = Idle /\ inst = Idle

\* One asset through the transformer and the minify/copy step.
TransformAsset ==
    /\ tr.pc = "start"
    /\ LET r == build_asset(tr.fname, tr.odata, tr.info, tr.minifier, tr.minifyOk)
       IN  tr' = [tr EXCEPT !.pc = "done",
                     !.newdata = NewData(Downlevel(Stamp(tr.odata, Basename(tr.fname),
                                                         tr.info), 1, Len(Rewrites) - 1),
                                         Len(Rewrites)),
                     !.data = r.data, !.tmp = r.tmp, !.tmpLeft = r.tmpLeft,
                     !.fsrc = IF r.tmp THEN "tmp" ELSE "src", !.dst = r.dst]
    /\ UNCHANGED <<vcs, sl, inst>>

NextTransform == TransformAsset

SpecTransform == InitTransform /\ [][NextTransform]_vars

\* The lines the downleveling reads, and the lines it leaves: a trailing
\* empty line is dropped by each later pass, so it may leave fewer.
InLines == SplitLines(Stamp(tr.odata, Basename(tr.fname), tr.info))

WsRun(line, i, j) == \A k \in i..j : line[k] \in Whitespace

HasAt(line, i, word) ==
    i + Len(word) - 1 <= Len(line) /\ SubSeq(line, i, i + Len(word) - 1) = word

\* Where the keyword kw of a declaration starts, for a line that from
\* position `from` on is: white space, kw, white space, the rest.
DeclKw(line, from, kw) ==
    {a \in from..Len(line) :
        /\ WsRun(line, from, a - 1)
        /\ HasAt(line, a, kw)
        /\ a + Len(kw) <= Len(line)
        /\ line[a + Len(kw)] \in Whitespace}

\* The same for a loop header: white space, for, white space, "(", and then
\* a declaration.
LoopKw(line, kw) ==
    UNION {UNION {DeclKw(line, c + 1, kw) :
                    c \in {x \in (a + 3)..Len(line) :
                             WsRun(line, a + 3, x - 1) /\ HasAt(line, x, <<"(">>)}} :
           a \in {x \in 1..Len(line) : WsRun(line, 1, x - 1) /\ HasAt(line, x, KwFor)}}

\* The first position at or after i that holds no white space.
AfterWs(line, i) ==
    CHOOSE e \in i..(Len(line) + 1) :
        WsRun(line, i, e - 1) /\ (e = Len(line) + 1 \/ line[e] \notin Whitespace)

Keywords == {KwLet, KwConst}

IsLoopLine(line) == \E kw \in Keywords : LoopKw(line, kw) # {}

IsDeclLine(line) == \E kw \in Keywords : DeclKw(line, 1, kw) # {}

\* The keyword an anchored line declares with, and where it starts.
AnchoredKw(line) ==
    CHOOSE r \in [kw : Keywords, at : 1..Len(line)] :
        r.at \in (IF IsLoopLine(line) THEN LoopKw(line, r.kw) ELSE DeclKw(line, 1, r.kw))

\* C6 as stated: on an anchored line only the keyword changes, to var, and
\* the rest of the line, leading white space included, is kept; any other
\* line is unchanged.
C6_OnlyKeywordRewritten ==
    tr.pc = "done" /\ IsRewritten(tr.fname) =>
        \A i \in 1..Len(tr.newdata) :
            LET line == InLines[i]
            IN  IF IsLoopLine(line) \/ IsDeclLine(line)
                THEN tr.newdata[i] =
                        SubSeq(line, 1, AnchoredKw(line).at - 1) \o KwVar
                        \o SubSeq(line, AnchoredKw(line).at + Len(AnchoredKw(line).kw),
                                  Len(line))
                ELSE tr.newdata[i] = line

\* C6 as amended: on an anchored line everything up to the white space
\* after the keyword is replaced by "var " (by "for(var " for a loop
\* header) and the rest of the line is kept; any other line is unchanged.
C6_AnchoredPrefixRewritten ==
    tr.pc = "done" /\ IsRewritten(tr.fname) =>
        \A i \in 1..Len(tr.newdata) :
            LET line == InLines[i]
            IN  IF IsLoopLine(line) \/ IsDeclLine(line)
                THEN LET k    == AnchoredKw(line)
                         rest == SubSeq(line, AfterWs(line, k.at + Len(k.kw)), Len(line))
                     IN  tr.newdata[i] =
                            (IF IsLoopLine(line) THEN KwFor \o <<"(">> ELSE <<>>)
                            \o KwVar \o <<" ">> \o rest
                ELSE tr.newdata[i] = line

\* An indented declaration went through the downleveling and changed.
C6_Witness ==
    /\ tr.pc = "done" /\ IsRewritten(tr.fname)
    /\ \E i \in 1..Len(tr.newdata) :
          IsDeclLine(InLines[i]) /\ InLines[i][1] \in Whitespace
          /\ tr.newdata[i] # InLines[i]

\* C10: for a script or markup asset the temporary file is written and
\* consumed iff stamping or downleveling changed something; otherwise the
\* step consumes the source itself and installs its content unmodified.
C10_TmpIffRewritten ==
    tr.pc = "done" /\ IsRewritten(tr.fname) =>
        LET stamped == Stamp(tr.odata, Basename(tr.fname), tr.info)
            changed == \/ stamped # tr.odata
                       \/ \E i \in 1..Len(InLines) :
                             IsLoopLine(InLines[i]) \/ IsDeclLine(InLines[i])
        IN  /\ tr.tmp <=> changed
            /\ (tr.fsrc = "tmp") <=> changed
            /\ ~changed => tr.dst.data = tr.odata

----------------------------------------------------------------------------
(* The install pipeline.                                                   *)

\* os.path.split(fname)[0]: <<>> for a file of the top directory.
RECURSIVE Dirname(_)
Dirname(fname) ==
    IF Find(fname, "/") = -1 THEN <<>>
    ELSE LET i    == Find(fname, "/")
             rest == Dirname(SubSeq(fname, i + 2, Len(fname)))
         IN  IF rest = <<>> THEN SubSeq(fname, 1, i)
             ELSE SubSeq(fname, 1, i + 1) \o rest

\* os.makedirs(ddir): the directory and every directory above it.
RECURSIVE MakeDirs(_)
MakeDirs(ddir) ==
    IF ddir = <<>> THEN {<<>>}
    ELSE {ddir} \cup MakeDirs(Dirname(ddir))

Jquery1 == <<"/usr/share/javascript/jquery/jquery.js">>

Jquery2 == <<"/usr/share/javascript/jquery/latest/jquery.js">>

Jquery3 == <<"/usr/share/javascript/jquery/3/jquery.js">>

JqueryUi1 == <<"/usr/share/javascript/jquery-ui/jquery-ui.js">>

JqueryUi2 == <<"/usr/share/javascript/jquery-ui/latest/jquery-ui.js">>

JqueryUi3 == <<"/usr/share/javascript/jquery-ui/3/jquery-ui.js">>

\* symlinks.get(os.path.basename(fname), [])
symlinks(bname) ==
    CASE bname = <<"jquery", ".", "js">>    -> <<Jquery1, Jquery2, Jquery3>>
      [] bname = <<"jquery-ui", ".", "js">> -> <<JqueryUi1, JqueryUi2, JqueryUi3>>
      [] OTHER                              -> <<>>

\* extra_symlinks["background.png"]
BackgroundPaths ==
    << <<"/usr/share/backgrounds/", "images/", "default", ".", "png">>,
       <<"/usr/share/backgrounds/", "images/", "*", "default", "*", ".", "png">>,
       <<"/usr/share/backgrounds/", "*", "default", "*", "png">>,
       <<"/usr/share/backgrounds/", "gnome/", "adwaita", "*", ".", "jpg">>,
       <<"/usr/share/backgrounds/", "images/", "*", "jpg">> >>

BackgroundPng == <<"background", ".", "png">>

JqueryJs == <<"js", "/", "lib", "/", "jquery", ".", "js">>

ClientJsTmp == ClientJs \o <<".", "tmp">>

\* The files the source tree html5/ may hold, and the text of each.
Universe == {IndexHtml, BackgroundPng, ClientJs, UtilitiesJs, ClientJsTmp, JqueryJs}

SrcText(fname) ==
    CASE fname = IndexHtml   -> <<"x">>
      [] fname = ClientJs    -> <<" ">> \o KwLet \o <<" ", "x", "\n">>
      [] fname = UtilitiesJs -> RevisionLiteral(<<"0">>) \o <<"\n">>
      [] OTHER               -> <<"x", "\n">>

\* The `.gz` and `.br` steps for an installed file; brk: the `break`
\* after brotli wrote its file leaves the loop over the directory.
Sidecars(st, fname, env) ==
    IF Ext(fname) = <<"png">> THEN st
    ELSE LET gz == IF ~env.gzip THEN st.gz
                   ELSE IF env.gzipOk THEN st.gz \cup {fname} ELSE st.gz \ {fname}
             on == env.brotli /\ env.brotli_cmd
             br == IF ~on THEN st.br
                   ELSE IF env.brotliOk THEN st.br \cup {fname} ELSE st.br \ {fname}
         IN  [st EXCEPT !.gz = gz, !.br = br, !.brk = on /\ env.brotliOk]

\* The minify/copy step and what follows, for a file that was not
\* symlinked.  Writing to a destination that is still a (dangling) link
\* writes through it: it creates the link's target, or fails.
InstallBuilt(st, fname, env, b) ==
    IF b.raised \/ (st.out[fname].kind = "link" /\ ~env.writable)
    THEN [st EXCEPT !.status = "raised",
                    !.tmps = IF b.tmp THEN @ \cup {fname} ELSE @]
    ELSE IF st.out[fname].kind = "link"
    THEN Sidecars([st EXCEPT !.sys.listing = Append(@, st.out[fname].target),
                             !.sys.dangling = @ \ {st.out[fname].target},
                             !.outcomes[fname] = Append(@, b.dst.how)], fname, env)
    ELSE Sidecars([st EXCEPT !.out[fname] = b.dst,
                             !.outcomes[fname] = Append(@, b.dst.how)], fname, env)

InstallFile(st, fname, env) ==
    InstallBuilt(st, fname, env,
                 build_asset(fname, SrcText(fname), env.info, env.minifier, env.minifyOk))

\* The body of the loop over the files of a directory.
\* ln: what install_symlink answered for the file.
AfterSymlink(st, fname, env, ln) ==
    CASE ln.ret = "raised" ->
            [st EXCEPT !.out[fname] = ln.dst, !.status = "raised"]
      [] ln.ret = "True" ->
            [st EXCEPT !.out[fname] = ln.dst,
                       !.outcomes[fname] = Append(@, "symlinked")]
      [] OTHER ->
            InstallFile([st EXCEPT !.out[fname] = ln.dst,
                                   !.dirs = @ \cup MakeDirs(Dirname(fname))],
                        fname, env)

ProcessFile(st, fname, env) ==
    IF EndsWith(fname, <<".", "tmp">>) THEN st
    ELSE AfterSymlink(st, fname, env,
            install_symlink(symlinks(Basename(fname)), 1,
                            IF NodeExists(st.out[fname], st.sys) THEN Absent
                            ELSE st.out[fname],
                            Dirname(fname) \in st.dirs, st.sys))

\* The first index after i of a file of another directory.
RECURSIVE NextDir(_, _, _)
NextDir(files, i, dir) ==
    IF i > Len(files) \/ Dirname(files[i]) # dir THEN i
    ELSE NextDir(files, i + 1, dir)

\* The loops over glob_recurse("html5"): files lists the files directory
\* by directory; a break skips the rest of the directory.
RECURSIVE ProcessFiles(_, _, _, _)
AfterFile(st, files, i, env) ==
    IF st.brk
    THEN ProcessFiles([st EXCEPT !.brk = FALSE], files,
                      NextDir(files, i, Dirname(files[i])), env)
    ELSE ProcessFiles(st, files, i + 1, env)

ProcessFiles(st, files, i, env) ==
    IF i > Len(files) \/ st.status = "raised" THEN st
    ELSE AfterFile(ProcessFile(st, files[i], env), files, i, env)

\* The last step: the desktop background, on posix.
AfterBackground(st, ln) ==
    [st EXCEPT !.out[BackgroundPng] = ln.dst,
               !.background = ln.ret,
               !.status = IF ln.ret = "raised" THEN "raised" ELSE @]

BackgroundStep(st, env) ==
    IF st.status = "raised" \/ ~env.posix THEN st
    ELSE AfterBackground(st, install_symlink(BackgroundPaths, 1, st.out[BackgroundPng],
                                             <<>> \in st.dirs, st.sys))

\* install_html5(install_dir, minifier) on the output directory `disk`.
install_html5(disk, files, env) ==
    BackgroundStep(
        ProcessFiles([out |-> disk.out, gz |-> disk.gz, br |-> disk.br,
                      dirs |-> disk.dirs, tmps |-> disk.tmps, sys |-> env.sys,
                      status |-> "ok", brk |-> FALSE,
                      outcomes |-> [f \in Universe |-> <<>>], background |-> "none"],
                     files, 1, env),
        env)

DiskOf(st) == [out |-> st.out, gz |-> st.gz, br |-> st.br, dirs |-> st.dirs,
               tmps |-> st.tmps]

\* The fresh output directory: nothing there, not even the directory.
FreshDisk == [out |-> [f \in Universe |-> Absent], gz |-> {}, br |-> {}, dirs |-> {},
              tmps |-> {}]

\* The bounds of the exploration.
MaxAssets == 2

MaxRuns == 2

MaxFailures == 1

MaxPipelineSys == 1

\* os.walk is top-down: a directory comes before the directories in it.
DirRank(fname) == Len(Dirname(fname))

\* The orders in which glob_recurse may list the files of a tree.
Orders(tree) ==
    {q \in [1..Cardinality(tree) -> tree] :
        /\ NoRepeat(q)
        /\ \A i, j \in 1..Len(q) : i < j => DirRank(q[i]) <= DirRank(q[j])}

Trees == {t \in SUBSET Universe : Cardinality(t) \in 1..MaxAssets}

MinifierChoices == {"copy", "uglifyjs", "closure"}

\* Which of the external steps fail in a run.
FailureChoices == {x \in SUBSET {"gzip", "minify", "brotli", "write"} :
                        Cardinality(x) <= MaxFailures}

PipelineSysPaths == <<Jquery1, Jquery2, BackgroundPaths[1]>>

PipelineSys ==
    {[listing |-> SelectSeq(PipelineSysPaths, LAMBDA p : p \in x), dangling |-> {}] :
        x \in {y \in SUBSET Range(PipelineSysPaths) : Cardinality(y) <= MaxPipelineSys}}

\* ./vcs-info as the install finds it.
PipelineVcsFile ==
    [exists |-> TRUE, lines |-> << <<"BRANCH", "=", "dev">>, <<"REVISION", "=", "8", "5">> >>]

Env(minifier, failures, posix, located, sys) ==
    [minifier |-> minifier, gzip |-> TRUE, brotli |-> TRUE, posix |-> posix,
     info |-> load_vcs_info(PipelineVcsFile),
     gzipOk |-> "gzip" \notin failures, minifyOk |-> "minify" \notin failures,
     brotliOk |-> "brotli" \notin failures, writable |-> "write" \notin failures,
     brotli_cmd |-> located, sys |-> sys]

NoEnv == Env("", {}, TRUE, FALSE, [listing |-> <<>>, dangling |-> {}])

InitInstall ==
    /\ \E t \in Trees, m \in MinifierChoices, x \in FailureChoices, px \in BOOLEAN :
          \E q \in Orders(t) :
             inst = [pc |-> "ready", runs |-> 0, tree |-> t, files |-> q,
                     minifier |-> m, failures |-> x, posix |-> px, env |-> NoEnv,
                     start |-> FreshDisk, disk |-> FreshDisk, sys |-> NoEnv.sys,
                     outcomes |-> [f \in Universe |-> <<>>], background |-> "none"]
    /\ vcs = Idle /\ sl = Idle /\ tr = Idle

\* One run of install_html5; between runs the system's files and the
\* presence of brotli may change.
AfterRun(i, env, st) ==
    [i EXCEPT !.pc = IF st.status = "raised" THEN "raised" ELSE "done",
              !.runs = @ + 1, !.env = env, !.start = i.disk,
              !.disk = DiskOf(st), !.sys = st.sys,
              !.outcomes = st.outcomes, !.background = st.background]

RunWith(i, env) == AfterRun(i, env, install_html5(i.disk, i.files, env))

InstallHtml5 ==
    /\ inst.runs < MaxRuns
    /\ \E located \in BOOLEAN, sys \in PipelineSys :
          inst' = RunWith(inst, Env(inst.minifier, inst.failures, inst.posix, located, sys))
    /\ UNCHANGED <<vcs, sl, tr>>

Next == InstallHtml5

Spec == InitInstall /\ [][Next]_vars

\* The assets of the tree: its files but for the temporary ones.
Assets == {f \in inst.tree : ~EndsWith(f, <<".", "tmp">>)}

Finished == inst.pc \in {"done", "raised"}

\* C1: after a run that completed, every asset is in exactly one of the
\* terminal outcomes symlinked, installed by copy, installed by minify.
C1_ExactlyOneOutcome ==
    inst.pc = "done" => \A f \in Assets : Len(inst.outcomes[f]) = 1

\* C2: after a run that completed, whatever the output directory held
\* before, every asset this run installed that is no png has a .gz iff
\* gzip succeeded in this run and a .br iff brotli was located and
\* succeeded in this run.
C2_SidecarsOfThisRun ==
    inst.pc = "done" =>
        \A f \in Assets :
            (inst.outcomes[f] # <<>> /\ inst.outcomes[f][1] \in {"copy", "minify"}
             /\ Ext(f) # <<"png">>) =>
                /\ f \in inst.disk.gz <=> inst.env.gzipOk
                /\ f \in inst.disk.br <=> (inst.env.brotli_cmd /\ inst.env.brotliOk)

\* The candidates of an asset that resolve, in the system the run found.
Hits(f) ==
    {i \in 1..Len(symlinks(Basename(f))) : Resolves(symlinks(Basename(f))[i], inst.env.sys)}

\* C7: when a system candidate of an asset exists, the run ends with the
\* destination a symbolic link to the first such candidate, whatever was
\* there before, and with no temporary file, copy or new sidecar for it.
C7_LinkedWhenCandidateExists ==
    Finished =>
        \A f \in Assets :
            Hits(f) # {} =>
                /\ inst.disk.out[f] =
                      SymLink(Resolved(symlinks(Basename(f))[
                                  CHOOSE i \in Hits(f) : \A j \in Hits(f) : i <= j],
                              inst.env.sys))
                /\ inst.outcomes[f] = <<"symlinked">>
                /\ f \notin inst.disk.tmps
                /\ f \in inst.disk.gz <=> f \in inst.start.gz
                /\ f \in inst.disk.br <=> f \in inst.start.br

\* C8: a run with an unknown minifier name ends with an error, whatever
\* the source tree holds.
C8_UnknownMinifierAborts ==
    (Finished /\ inst.env.minifier \notin ({"", "None", "copy"} \cup KnownMinifiers))
        => inst.pc = "raised"

\* What a run leaves: the destinations, the sidecars and how it ended.
Result(st) == [out |-> st.out, gz |-> st.gz, br |-> st.br, status |-> st.status]

\* C9: every order in which the files of a directory may be listed leads
\* to the same result, from the same output directory and tool outcomes.
C9_OrderIndependent ==
    Finished =>
        \A q \in Orders(inst.tree) :
            Result(install_html5(inst.start, q, inst.env))
                = [out |-> inst.disk.out, gz |-> inst.disk.gz, br |-> inst.disk.br,
                   status |-> IF inst.pc = "raised" THEN "raised" ELSE "ok"]

====
